---- MODULE Spec2Model ----
(***************************************************************************)
(* Model of examples/mcp_echo_server.py: the import guard, the four        *)
(* handlers registered on the SDK Server (list_tools, call_tool,           *)
(* list_prompts, get_prompt) and main().                                   *)
(*                                                                         *)
(* Python strings that the code concatenates or transforms are sequences   *)
(* of one-character strings; dict keys and fixed descriptions, which the   *)
(* code never takes apart, are plain strings.                              *)
(***************************************************************************)
EXTENDS Integers, Sequences, FiniteSets, TLC

VARIABLES pc, exitCode, stdout, stderr, request, outcome, heap

vars == <<pc, exitCode, stdout, stderr, request, outcome, heap>>

----------------------------------------------------------------------------
(* Bounds *)

MaxLen == 3        \* longest argument string
MaxInt == 1        \* largest non-string (integer) argument value
MaxId == 2         \* request identifiers 1..MaxId
MaxObjects == 2    \* lists returned by discovery handlers that callers hold

----------------------------------------------------------------------------
(* String literals of the source *)

S_echo == <<"e","c","h","o">>
S_uppercase == <<"u","p","p","e","r","c","a","s","e">>
S_count_words == <<"c","o","u","n","t","_","w","o","r","d","s">>
S_greeting == <<"g","r","e","e","t","i","n","g">>
S_nonexistent == <<"n","o","n","e","x","i","s","t","e","n","t">>

S_EchoPrefix == <<"E","c","h","o",":"," ">>
S_WordCountPrefix == <<"W","o","r","d"," ","c","o","u","n","t",":"," ">>
S_UnknownTool == <<"U","n","k","n","o","w","n"," ","t","o","o","l",":"," ">>
S_UnknownPrompt == <<"U","n","k","n","o","w","n"," ","p","r","o","m","p","t",":"," ">>
S_World == <<"W","o","r","l","d">>
S_Hello == <<"H","e","l","l","o",","," ">>
S_HowAreYou == <<"!"," ","H","o","w"," ","a","r","e"," ","y","o","u"," ","t","o","d","a","y","?">>
S_ServerError == <<"S","e","r","v","e","r"," ","e","r","r","o","r",":"," ">>

----------------------------------------------------------------------------
(* Inputs *)

Chars == {"h", "i", "I", " "}

Strings == UNION {[1..n -> Chars] : n \in 0..MaxLen}

StrVal(s) == [t |-> "str", v |-> s]
IntVal(n) == [t |-> "int", v |-> n]

Values == {StrVal(s) : s \in Strings} \cup {IntVal(n) : n \in 0..MaxInt}

Fields == {"message", "text", "name"}

EmptyArgs == [k \in {} |-> StrVal(<<>>)]

\* dicts with at most one of the keys the handlers look at
ArgumentMaps == {EmptyArgs} \cup {[k \in {f} |-> x] : f \in Fields, x \in Values}

Names == {S_echo, S_uppercase, S_count_words, S_greeting, S_nonexistent, <<>>}

Ids == 1..MaxId

Requests == [id : Ids, method : {"call_tool", "get_prompt"},
             name : Names, arguments : ArgumentMaps]

ScenarioRequests ==
    { [id |-> 1, method |-> "call_tool", name |-> S_echo,
       arguments |-> [k \in {"message"} |-> StrVal(<<"h","i">>)]],
      [id |-> 2, method |-> "call_tool", name |-> S_echo, arguments |-> EmptyArgs],
      [id |-> 1, method |-> "call_tool", name |-> S_nonexistent, arguments |-> EmptyArgs],
      [id |-> 2, method |-> "get_prompt", name |-> S_greeting,
       arguments |-> [k \in {"name"} |-> StrVal(<<"I">>)]] }

\* messages of the exceptions that can escape server.run
RunErrors == {<<>>, <<"I">>, <<"h","i">>}

----------------------------------------------------------------------------
(* Python built-ins used by the handlers *)

\* dict.get(key, default)
Get(arguments, key, default) ==
    IF key \in DOMAIN arguments THEN arguments[key] ELSE default

Digit(d) ==
    CASE d = 0 -> "0" [] d = 1 -> "1" [] d = 2 -> "2" [] d = 3 -> "3"
      [] d = 4 -> "4" [] d = 5 -> "5" [] d = 6 -> "6" [] d = 7 -> "7"
      [] d = 8 -> "8" [] d = 9 -> "9"

RECURSIVE IntToStr(_)
IntToStr(n) ==
    IF n < 10 THEN <<Digit(n)>> ELSE IntToStr(n \div 10) \o <<Digit(n % 10)>>

\* format(value) inside an f-string
Format(x) == IF x.t = "str" THEN x.v ELSE IntToStr(x.v)

UpperChar(c) == CASE c = "h" -> "H" [] c = "i" -> "I" [] OTHER -> c

\* str.upper()
Upper(s) == [i \in 1..Len(s) |-> UpperChar(s[i])]

IsSpace(c) == c = " "

\* str.split(): the maximal runs of non-whitespace characters
RECURSIVE SplitFrom(_, _, _)
SplitFrom(s, i, word) ==
    IF i > Len(s)
    THEN IF word = <<>> THEN <<>> ELSE <<word>>
    ELSE IF IsSpace(s[i])
         THEN (IF word = <<>> THEN <<>> ELSE <<word>>) \o SplitFrom(s, i + 1, <<>>)
         ELSE SplitFrom(s, i + 1, Append(word, s[i]))

Split(s) == SplitFrom(s, 1, <<>>)

----------------------------------------------------------------------------
(* Handler results *)

TextContent(text) == [type |-> "text", text |-> text]

Return(value) == [kind |-> "return", value |-> value]
Raise(exc, msg) == [kind |-> "raise", exc |-> exc, msg |-> msg]

NoAttribute(attr) == Raise("AttributeError", <<"'int' object has no attribute ", attr>>)

----------------------------------------------------------------------------
(* Registered descriptors *)

Tool(name, description, field, fieldDescription) ==
    [name |-> name, description |-> description,
     inputSchema |-> [type |-> "object",
                      properties |-> [f \in {field} |->
                                         [type |-> "string",
                                          description |-> fieldDescription]],
                      required |-> <<field>>]]

\* the list display of list_tools
ToolList ==
    << Tool(S_echo, "Echo back the provided message",
            "message", "Message to echo back"),
       Tool(S_uppercase, "Convert text to uppercase",
            "text", "Text to convert to uppercase"),
       Tool(S_count_words, "Count words in the provided text",
            "text", "Text to count words in") >>

\* the list display of list_prompts
PromptList ==
    << [name |-> S_greeting, description |-> "A simple greeting prompt",
        arguments |-> << [name |-> "name", description |-> "Name to greet",
                          required |-> TRUE] >>] >>

----------------------------------------------------------------------------
(* Handlers *)

\* A discovery handler evaluates a list display: a new list object is put on
\* the heap and a reference to it is returned.
Fresh(h, items) == [heap |-> Append(h, items), ref |-> Len(h) + 1]

\* a handler that keeps returning the list object it built first
list_tools_shared(h) ==
    IF Len(h) > 0 THEN [heap |-> h, ref |-> 1] ELSE Fresh(h, ToolList)

list_tools(h) == Fresh(h, ToolList)

list_prompts(h) == Fresh(h, PromptList)

\* echo without the "Echo: " prefix
call_tool_bare_echo(name, arguments) ==
    IF name = S_echo
    THEN Return(<<TextContent(Format(Get(arguments, "message", StrVal(<<>>))))>>)
    ELSE IF name = S_uppercase
    THEN LET text == Get(arguments, "text", StrVal(<<>>))
         IN  IF text.t = "str" THEN Return(<<TextContent(Upper(text.v))>>)
             ELSE NoAttribute("upper")
    ELSE IF name = S_count_words
    THEN LET text == Get(arguments, "text", StrVal(<<>>))
         IN  IF text.t = "str"
             THEN Return(<<TextContent(S_WordCountPrefix \o IntToStr(Len(Split(text.v))))>>)
             ELSE NoAttribute("split")
    ELSE Raise("ValueError", S_UnknownTool \o name)

\* arguments["text"] instead of arguments.get("text", "")
call_tool_subscript(name, arguments) ==
    IF name = S_echo
    THEN Return(<<TextContent(S_EchoPrefix \o Format(Get(arguments, "message", StrVal(<<>>))))>>)
    ELSE IF name \in {S_uppercase, S_count_words} /\ "text" \notin DOMAIN arguments
    THEN Raise("KeyError", <<"'text'">>)
    ELSE IF name = S_uppercase
    THEN LET text == arguments["text"]
         IN  IF text.t = "str" THEN Return(<<TextContent(Upper(text.v))>>)
             ELSE NoAttribute("upper")
    ELSE IF name = S_count_words
    THEN LET text == arguments["text"]
         IN  IF text.t = "str"
             THEN Return(<<TextContent(S_WordCountPrefix \o IntToStr(Len(Split(text.v))))>>)
             ELSE NoAttribute("split")
    ELSE Raise("ValueError", S_UnknownTool \o name)

\* a last branch that answers instead of raising
call_tool_no_else(name, arguments) ==
    IF name = S_uppercase
    THEN LET text == Get(arguments, "text", StrVal(<<>>))
         IN  IF text.t = "str" THEN Return(<<TextContent(Upper(text.v))>>)
             ELSE NoAttribute("upper")
    ELSE IF name = S_count_words
    THEN LET text == Get(arguments, "text", StrVal(<<>>))
         IN  IF text.t = "str"
             THEN Return(<<TextContent(S_WordCountPrefix \o IntToStr(Len(Split(text.v))))>>)
             ELSE NoAttribute("split")
    ELSE Return(<<TextContent(S_EchoPrefix \o Format(Get(arguments, "message", StrVal(<<>>))))>>)

call_tool(name, arguments) ==
    IF name = S_echo
    THEN LET message == Get(arguments, "message", StrVal(<<>>))
         IN  Return(<<TextContent(S_EchoPrefix \o Format(message))>>)
    ELSE IF name = S_uppercase
    THEN LET text == Get(arguments, "text", StrVal(<<>>))
         IN  IF text.t = "str" THEN Return(<<TextContent(Upper(text.v))>>)
             ELSE NoAttribute("upper")
    ELSE IF name = S_count_words
    THEN LET text == Get(arguments, "text", StrVal(<<>>))
         IN  IF text.t = "str"
             THEN LET word_count == Len(Split(text.v))
                  IN  Return(<<TextContent(S_WordCountPrefix \o IntToStr(word_count))>>)
             ELSE NoAttribute("split")
    ELSE Raise("ValueError", S_UnknownTool \o name)

get_prompt(name, arguments) ==
    IF name = S_greeting
    THEN LET name_arg == Get(arguments, "name", StrVal(S_World))
         IN  Return([description |-> "A greeting prompt",
                     messages |-> << [role |-> "user",
                                      content |-> TextContent(S_Hello \o Format(name_arg)
                                                              \o S_HowAreYou)] >>])
    ELSE Raise("ValueError", S_UnknownPrompt \o name)

----------------------------------------------------------------------------
(* Process *)

NoExit == "none"
NoOutcome == [method |-> "none"]

\* the dict that json.dumps serialises and print writes as one line
ErrorEnvelope(code, message) ==
    [jsonrpc |-> "2.0", error |-> [code |-> code, message |-> message]]

ImportErrorCode == -1
ServerErrorCode == -2

Init ==
    /\ pc = "import"
    /\ exitCode = NoExit
    /\ stdout = <<>>
    /\ stderr = <<>>
    /\ request \in ScenarioRequests
    /\ outcome = NoOutcome
    /\ heap = <<>>

\* the server already running, about to be handed any one request
InitHandlers ==
    /\ pc = "serving"
    /\ exitCode = NoExit
    /\ stdout = <<>>
    /\ stderr = <<>>
    /\ request \in Requests
    /\ outcome = NoOutcome
    /\ heap = <<>>

\* the imports of the SDK succeed; the handlers are registered, main() runs
ImportOK ==
    /\ pc = "import"
    /\ pc' = "serving"
    /\ UNCHANGED <<exitCode, stdout, stderr, request, outcome, heap>>

\* except ImportError: print(json.dumps(...)); sys.exit(1)
ImportFail ==
    /\ pc = "import"
    /\ stdout' = Append(stdout,
                        ErrorEnvelope(ImportErrorCode,
                            "MCP Python SDK not installed. Please run: pip install mcp"))
    /\ exitCode' = 1
    /\ pc' = "exited"
    /\ UNCHANGED <<stderr, request, outcome, heap>>

ListTools ==
    /\ pc = "serving"
    /\ Len(heap) < MaxObjects
    /\ \E id \in Ids :
         LET r == list_tools(heap)
         IN  /\ heap' = r.heap
             /\ outcome' = [id |-> id, method |-> "list_tools", ref |-> r.ref,
                            result |-> Return(r.heap[r.ref])]
    /\ UNCHANGED <<pc, exitCode, stdout, stderr, request>>

ListPrompts ==
    /\ pc = "serving"
    /\ Len(heap) < MaxObjects
    /\ \E id \in Ids :
         LET r == list_prompts(heap)
         IN  /\ heap' = r.heap
             /\ outcome' = [id |-> id, method |-> "list_prompts", ref |-> r.ref,
                            result |-> Return(r.heap[r.ref])]
    /\ UNCHANGED <<pc, exitCode, stdout, stderr, request>>

Reverse(s) == [i \in 1..Len(s) |-> s[Len(s) + 1 - i]]

\* the holder of a returned list changes it in place (list.reverse(), list.clear())
Mutate ==
    /\ pc = "serving"
    /\ \E ref \in 1..Len(heap), op \in {"reverse", "clear"} :
         heap' = [heap EXCEPT ![ref] = IF op = "reverse" THEN Reverse(@) ELSE <<>>]
    /\ UNCHANGED <<pc, exitCode, stdout, stderr, request, outcome>>

CallTool ==
    /\ pc = "serving"
    /\ request.method = "call_tool"
    /\ outcome' = [id |-> request.id, method |-> "call_tool", name |-> request.name,
                   arguments |-> request.arguments,
                   result |-> call_tool(request.name, request.arguments)]
    /\ UNCHANGED <<pc, exitCode, stdout, stderr, request, heap>>

GetPrompt ==
    /\ pc = "serving"
    /\ request.method = "get_prompt"
    /\ outcome' = [id |-> request.id, method |-> "get_prompt", name |-> request.name,
                   arguments |-> request.arguments,
                   result |-> get_prompt(request.name, request.arguments)]
    /\ UNCHANGED <<pc, exitCode, stdout, stderr, request, heap>>

\* server.run returns; main() and asyncio.run return
RunReturns ==
    /\ pc = "serving"
    /\ pc' = "exited"
    /\ exitCode' = 0
    /\ UNCHANGED <<stdout, stderr, request, outcome, heap>>

\* except Exception as e: print(json.dumps(...), file=sys.stderr); sys.exit(1)
RunRaises ==
    /\ pc = "serving"
    /\ \E e \in RunErrors :
         stderr' = Append(stderr, ErrorEnvelope(ServerErrorCode, S_ServerError \o e))
    /\ exitCode' = 1
    /\ pc' = "exited"
    /\ UNCHANGED <<stdout, request, outcome, heap>>

Next ==
    \/ ImportOK
    \/ ImportFail
    \/ ListTools
    \/ ListPrompts
    \/ Mutate
    \/ CallTool
    \/ GetPrompt
    \/ RunReturns
    \/ RunRaises

NextHandlers ==
    \/ CallTool
    \/ GetPrompt

Spec == Init /\ [][Next]_vars

SpecHandlers == InitHandlers /\ [][NextHandlers]_vars

----------------------------------------------------------------------------
(* Properties *)

RegisteredTools == {S_echo, S_uppercase, S_count_words}
RegisteredPrompts == {S_greeting}

IsToolCall == outcome.method = "call_tool"
IsPromptCall == outcome.method = "get_prompt"

UnregisteredCall ==
    \/ IsToolCall /\ outcome.name \notin RegisteredTools
    \/ IsPromptCall /\ outcome.name \notin RegisteredPrompts

C4_EnvelopeOnErrorStream ==
    (pc = "exited" /\ exitCode # 0) =>
        /\ Len(stderr) > 0
        /\ stderr[Len(stderr)].jsonrpc = "2.0"
        /\ stderr[Len(stderr)].error.code \in Int
        /\ DOMAIN stderr[Len(stderr)].error = {"code", "message"}

\* C5: whatever was called before and whatever was done to the lists returned
\* earlier, list_tools returns echo, uppercase, count_words in that order and
\* list_prompts returns greeting.
C5_DiscoveryOrder ==
    /\ outcome.method = "list_tools" =>
          /\ outcome.result.kind = "return"
          /\ [i \in 1..Len(outcome.result.value) |-> outcome.result.value[i].name]
                = <<S_echo, S_uppercase, S_count_words>>
          /\ [i \in 1..Len(outcome.result.value) |->
                 outcome.result.value[i].inputSchema.required]
                = << <<"message">>, <<"text">>, <<"text">> >>
    /\ outcome.method = "list_prompts" =>
          /\ outcome.result.kind = "return"
          /\ [i \in 1..Len(outcome.result.value) |-> outcome.result.value[i].name]
                = <<S_greeting>>

\* a second list_tools result while the list returned first has been reversed
C5_Witness ==
    /\ outcome.method = "list_tools"
    /\ outcome.ref = 2
    /\ heap[1] = Reverse(ToolList)
    /\ heap[2] = ToolList

\* C6: a call of echo whose arguments hold a string "message" m returns, for
\* the request that made it, exactly one text block "Echo: " followed by m;
\* for m = "hi" that is "Echo: hi".
C6_EchoContent ==
    (/\ IsToolCall
     /\ outcome.name = S_echo
     /\ "message" \in DOMAIN outcome.arguments
     /\ outcome.arguments["message"].t = "str") =>
        /\ outcome.id = request.id
        /\ outcome.result.kind = "return"
        /\ outcome.result.value =
              << [type |-> "text",
                  text |-> <<"E","c","h","o",":"," ">> \o outcome.arguments["message"].v] >>
        /\ outcome.arguments["message"].v = <<"h","i">> =>
              outcome.result.value[1].text = <<"E","c","h","o",":"," ","h","i">>

C6_Witness ==
    /\ IsToolCall
    /\ outcome.name = S_echo
    /\ outcome.id = 1
    /\ outcome.arguments = [k \in {"message"} |-> StrVal(<<"h","i">>)]
    /\ outcome.result.kind = "return"

ToolField(name) == IF name = S_echo THEN "message" ELSE "text"

AbsentOrString(arguments, field) ==
    field \in DOMAIN arguments => arguments[field].t = "str"

\* C10: for a registered name and arguments whose field is absent or a string,
\* call_tool returns one block of kind "text" and does not raise; an absent
\* field gives "Echo: ", "" and "Word count: 0"; with such arguments it raises
\* only for a name that is not registered.
C10_CallToolTotal ==
    (IsToolCall /\ AbsentOrString(outcome.arguments, ToolField(outcome.name))) =>
        /\ outcome.name \in RegisteredTools =>
              /\ outcome.result.kind = "return"
              /\ Len(outcome.result.value) = 1
              /\ outcome.result.value[1].type = "text"
              /\ ToolField(outcome.name) \notin DOMAIN outcome.arguments =>
                    outcome.result.value[1].text =
                       CASE outcome.name = S_echo -> <<"E","c","h","o",":"," ">>
                         [] outcome.name = S_uppercase -> <<>>
                         [] outcome.name = S_count_words ->
                              <<"W","o","r","d"," ","c","o","u","n","t",":"," ","0">>
        /\ outcome.result.kind = "raise" => outcome.name \notin RegisteredTools

C10_Witness ==
    /\ IsToolCall
    /\ outcome.name = S_count_words
    /\ "text" \notin DOMAIN outcome.arguments
    /\ outcome.result.kind = "return"
    /\ outcome.result.value[1].text =
          <<"W","o","r","d"," ","c","o","u","n","t",":"," ","0">>

====
